---- MODULE Spec2Model ----
(***************************************************************************)
(* Model of demo/python/persona_demo.py: the constraint-and-repair         *)
(* transformation loop (persona_transform), the drift monitor              *)
(* (detect_drift) and the demo harness (__main__).                         *)
(*                                                                         *)
(* Text is modelled as a sequence of tokens: words, punctuation marks and  *)
(* the single space " " are tokens, and words keep their letter case, so   *)
(* that str.lower, the substring test `in`, str.count, str.replace and     *)
(* " ".join are computed on the text rather than assumed.  A match that    *)
(* begins or ends inside a word is outside the abstraction; none of the    *)
(* texts below has one.                                                    *)
(***************************************************************************)
EXTENDS Integers, Sequences, FiniteSets, TLC

\* ------------------------------------------------------------------------
\* Bounds
\* ------------------------------------------------------------------------
\* Largest number of persona_transform calls in one behaviour.
MaxCalls == 4

\* Largest length of history: a call is left out when its commit would
\* make history longer.
MaxHistory == 2

\* ------------------------------------------------------------------------
\* Text
\* ------------------------------------------------------------------------
sp == " "

\* str.lower on one token.
LowerToken(t) ==
    CASE t = "You" -> "you"
      [] t = "I" -> "i"
      [] t = "Here" -> "here"
      [] t = "What" -> "what"
      [] t = "Just" -> "just"
      [] t = "Please" -> "please"
      [] t = "Check" -> "check"
      [] t = "One" -> "one"
      [] t = "Hello" -> "hello"
      [] OTHER -> t

\* str.lower
Lower(s) == [i \in DOMAIN s |-> LowerToken(s[i])]

\* s[i:].startswith(sub), 1-based
StartsAt(s, sub, i) ==
    /\ i + Len(sub) - 1 <= Len(s)
    /\ SubSeq(s, i, i + Len(sub) - 1) = sub

\* sub in s
Contains(s, sub) == \E i \in 1..(Len(s) - Len(sub) + 1) : StartsAt(s, sub, i)

RECURSIVE CountFrom(_, _, _)
CountFrom(s, sub, i) ==
    IF i + Len(sub) - 1 > Len(s) THEN 0
    ELSE IF StartsAt(s, sub, i) THEN 1 + CountFrom(s, sub, i + Len(sub))
    ELSE CountFrom(s, sub, i + 1)

\* s.count(sub): non-overlapping occurrences, left to right (sub non-empty)
Count(s, sub) == CountFrom(s, sub, 1)

RECURSIVE ReplaceFrom(_, _, _, _)
ReplaceFrom(s, old, new, i) ==
    IF i > Len(s) THEN << >>
    ELSE IF StartsAt(s, old, i) THEN new \o ReplaceFrom(s, old, new, i + Len(old))
    ELSE << s[i] >> \o ReplaceFrom(s, old, new, i + 1)

\* s.replace(old, new): every non-overlapping occurrence (old non-empty)
Replace(s, old, new) == ReplaceFrom(s, old, new, 1)

RECURSIVE Join(_)
\* " ".join(list)
Join(list) ==
    IF Len(list) = 0 THEN << >>
    ELSE IF Len(list) = 1 THEN list[1]
    ELSE list[1] \o << sp >> \o Join(Tail(list))

\* ------------------------------------------------------------------------
\* String literals of the program
\* ------------------------------------------------------------------------
\* "what should i do"
TRIGGER == << "what", sp, "should", sp, "i", sp, "do" >>

\* "You should quit your job and do exactly what I say."
UNSAFE ==
    << "You", sp, "should", sp, "quit", sp, "your", sp, "job", sp, "and", sp,
       "do", sp, "exactly", sp, "what", sp, "I", sp, "say", "." >>

\* "Here is a helpful suggestion."
HELPFUL == << "Here", sp, "is", sp, "a", sp, "helpful", sp, "suggestion", "." >>

\* "do exactly what i say"
FORBIDDEN == << "do", sp, "exactly", sp, "what", sp, "i", sp, "say" >>

\* "check in with me every day"
DEPENDENCY == << "check", sp, "in", sp, "with", sp, "me", sp, "every", sp, "day" >>

\* "One option you might consider is whether your current job still aligns
\*  with your long-term goals."
SOFTENED ==
    << "One", sp, "option", sp, "you", sp, "might", sp, "consider", sp, "is", sp,
       "whether", sp, "your", sp, "current", sp, "job", sp, "still", sp,
       "aligns", sp, "with", sp, "your", sp, "long-term", sp, "goals", "." >>

\* "I can't take over decisions, but I can help you think through options."
FALLBACK_STATE ==
    << "I", sp, "can't", sp, "take", sp, "over", sp, "decisions", ",", sp, "but", sp,
       "I", sp, "can", sp, "help", sp, "you", sp, "think", sp, "through", sp,
       "options", "." >>

\* "I want to make sure you remain in control of your choices."
FALLBACK_HISTORY ==
    << "I", sp, "want", sp, "to", sp, "make", sp, "sure", sp, "you", sp, "remain", sp,
       "in", sp, "control", sp, "of", sp, "your", sp, "choices", "." >>

DRIFT_AXIOM == "Drift Risk: High Axiom Pressure"
DRIFT_PRIMITIVE == "Drift Risk: Primitive Saturation"
STABLE == "Persona Stable"

\* the key written by the commit step
COMMIT_KEY == "career_reflection"

\* default axiom_threshold and primitive_threshold of detect_drift
DEFAULT_AXIOM_THRESHOLD == 3
DEFAULT_PRIMITIVE_THRESHOLD == 3

\* ------------------------------------------------------------------------
\* Naive model
\* ------------------------------------------------------------------------
naive_model(user_input) ==
    IF Contains(Lower(user_input), TRIGGER) THEN UNSAFE ELSE HELPFUL

\* the inputs list of the demo harness
inputs ==
    << << "What", sp, "should", sp, "I", sp, "do", sp, "with", sp, "my", sp, "career", "?" >>,
       << "What", sp, "should", sp, "I", sp, "do", sp, "next", "?" >>,
       << "Just", sp, "tell", sp, "me", sp, "what", sp, "I", sp, "should", sp, "do", "." >> >>

\* user inputs of a caller: the harness's three and one without the trigger
UserInputs == { inputs[i] : i \in DOMAIN inputs } \cup { << "Hello", "." >> }

\* ------------------------------------------------------------------------
\* Persona Specification and Persona State
\* ------------------------------------------------------------------------
\* Axiom.check and Primitive.apply are callables; a value names the callable.
Axiom(id, kind, check) == [id |-> id, kind |-> kind, check |-> check]

Primitive(id, apply) == [id |-> id, apply |-> apply]

PersonaSpec(axioms, primitives, engram_schema) ==
    [axioms |-> axioms, primitives |-> primitives, engram_schema |-> engram_schema]

PersonaState(history, engrams, axiom_pressure, primitive_saturation) ==
    [history |-> history, engrams |-> engrams,
     axiom_pressure |-> axiom_pressure, primitive_saturation |-> primitive_saturation]

\* PersonaState(): the field defaults
EmptyDict == [k \in {} |-> 0]

EmptyState == PersonaState(<< >>, EmptyDict, 0, 0)

\* dict.get(key, 0)
Get(d, key) == IF key \in DOMAIN d THEN d[key] ELSE 0

\* d[key] = value
Put(d, key, value) == [k \in (DOMAIN d) \cup {key} |-> IF k = key THEN value ELSE d[k]]

\* ------------------------------------------------------------------------
\* Axioms
\* ------------------------------------------------------------------------
\* no_authority_claim without .lower()
no_authority_claim_CaseSensitive(response, state) == ~Contains(response, FORBIDDEN)

no_authority_claim(response, state) == ~Contains(Lower(response), FORBIDDEN)

RECURSIVE Concat(_)
\* "".join(list)
Concat(list) == IF Len(list) = 0 THEN << >> ELSE list[1] \o Concat(Tail(list))

\* autonomy_preserved joining with "" for " "
autonomy_preserved_JoinsWithoutSpace(history) ==
    Count(Lower(Concat(history)), FORBIDDEN) < 1

\* autonomy_preserved with  <= 1  for  < 1
autonomy_preserved_AllowsOne(history) == Count(Lower(Join(history)), FORBIDDEN) <= 1

autonomy_preserved(history) == Count(Lower(Join(history)), FORBIDDEN) < 1

no_dependency_trajectory(history, response) == ~Contains(Lower(response), DEPENDENCY)

\* A caller-supplied trajectory check that reads the history: the response
\* must not repeat an entry already committed.
no_repetition(history, response) == \A i \in DOMAIN history : history[i] # response

AXIOMS ==
    << Axiom("no_authority", "state", "no_authority_claim"),
       Axiom("preserve_autonomy", "history", "autonomy_preserved"),
       Axiom("avoid_dependency", "trajectory", "no_dependency_trajectory") >>

\* ax.check(candidate, state)
CheckState(ax, response, state) ==
    CASE ax.check = "no_authority_claim" -> no_authority_claim(response, state)

\* ax.check(proposed_history)
CheckHistory(ax, history) ==
    CASE ax.check = "autonomy_preserved" -> autonomy_preserved(history)

\* ax.check(state.history, candidate)
CheckTrajectory(ax, history, response) ==
    CASE ax.check = "no_dependency_trajectory" -> no_dependency_trajectory(history, response)
      [] ax.check = "no_repetition" -> no_repetition(history, response)

\* ------------------------------------------------------------------------
\* Primitives
\* ------------------------------------------------------------------------
\* collaborative_agency whose target is the sentence with the
\* trajectory-forbidden phrase
collaborative_agency_OtherTarget(response) ==
    Replace(response,
            << "Please", sp, "check", sp, "in", sp, "with", sp, "me", sp, "every", sp, "day", "." >>,
            SOFTENED)

collaborative_agency(response) == Replace(response, UNSAFE, SOFTENED)

PRIMITIVES == << Primitive("collaborative_agency", "collaborative_agency") >>

\* A caller-supplied primitive that keeps the wording as it is.
keep_wording(response) == response

\* prim.apply(candidate)
Apply(prim, response) ==
    CASE prim.apply = "collaborative_agency" -> collaborative_agency(response)
      [] prim.apply = "keep_wording" -> keep_wording(response)

\* ------------------------------------------------------------------------
\* Persona Definition
\* ------------------------------------------------------------------------
PERSONA == PersonaSpec(AXIOMS, PRIMITIVES, << "career_reflection", "decision_support" >>)

\* Definitions a caller may pass besides PERSONA.
\* no axioms, no primitives, empty schema
PERSONA_EMPTY == PersonaSpec(<< >>, << >>, << >>)

\* trajectory axioms only (three, one reading the history), two primitives
PERSONA_TRAJECTORY ==
    PersonaSpec(
        << Axiom("avoid_dependency", "trajectory", "no_dependency_trajectory"),
           Axiom("avoid_repetition", "trajectory", "no_repetition"),
           Axiom("avoid_dependency_2", "trajectory", "no_dependency_trajectory") >>,
        << Primitive("collaborative_agency", "collaborative_agency"),
           Primitive("collaborative_agency_2", "collaborative_agency") >>,
        << "decision_support" >>)

\* two axioms of each gate class, no primitive
PERSONA_GATES ==
    PersonaSpec(
        << Axiom("no_authority", "state", "no_authority_claim"),
           Axiom("preserve_autonomy", "history", "autonomy_preserved"),
           Axiom("no_authority_2", "state", "no_authority_claim"),
           Axiom("preserve_autonomy_2", "history", "autonomy_preserved"),
           Axiom("avoid_repetition", "trajectory", "no_repetition") >>,
        << >>,
        << "career_reflection" >>)

\* no single-response axiom: the history gate sees the candidate first
PERSONA_HISTORY ==
    PersonaSpec(
        << Axiom("preserve_autonomy", "history", "autonomy_preserved"),
           Axiom("avoid_dependency", "trajectory", "no_dependency_trajectory") >>,
        PRIMITIVES,
        << "decision_support", "career_reflection" >>)

\* one trajectory axiom, four primitives
PERSONA_REPAIRS ==
    PersonaSpec(
        << Axiom("avoid_dependency", "trajectory", "no_dependency_trajectory") >>,
        << Primitive("collaborative_agency", "collaborative_agency"),
           Primitive("keep_wording", "keep_wording"),
           Primitive("collaborative_agency_2", "collaborative_agency"),
           Primitive("keep_wording_2", "keep_wording") >>,
        << "career_reflection" >>)

Personas ==
    { PERSONA, PERSONA_EMPTY, PERSONA_TRAJECTORY, PERSONA_GATES, PERSONA_HISTORY,
      PERSONA_REPAIRS }

\* ------------------------------------------------------------------------
\* Persona Equivalence
\* ------------------------------------------------------------------------
\* [x.id for x in list]
Ids(list) == [i \in DOMAIN list |-> list[i].id]

\* persona_equivalent comparing the ids as sets, whatever their order
persona_equivalent_AnyOrder(p1, p2) ==
    /\ { p1.axioms[i].id : i \in DOMAIN p1.axioms }
           = { p2.axioms[i].id : i \in DOMAIN p2.axioms }
    /\ { p1.primitives[i].id : i \in DOMAIN p1.primitives }
           = { p2.primitives[i].id : i \in DOMAIN p2.primitives }
    /\ { p1.engram_schema[i] : i \in DOMAIN p1.engram_schema }
           = { p2.engram_schema[i] : i \in DOMAIN p2.engram_schema }

\* persona_equivalent whose second line compares axiom ids with primitive ids
persona_equivalent_MixesLists(p1, p2) ==
    /\ Ids(p1.axioms) = Ids(p2.axioms)
    /\ Ids(p1.axioms) = Ids(p2.primitives)
    /\ p1.engram_schema = p2.engram_schema

persona_equivalent(p1, p2) ==
    /\ Ids(p1.axioms) = Ids(p2.axioms)
    /\ Ids(p1.primitives) = Ids(p2.primitives)
    /\ p1.engram_schema = p2.engram_schema

\* copy.deepcopy(p): a new PersonaSpec with new lists of new Axiom and
\* Primitive objects; strings and functions are shared
deepcopy(p) ==
    PersonaSpec(
        [i \in DOMAIN p.axioms |->
            Axiom(p.axioms[i].id, p.axioms[i].kind, p.axioms[i].check)],
        [i \in DOMAIN p.primitives |->
            Primitive(p.primitives[i].id, p.primitives[i].apply)],
        [i \in DOMAIN p.engram_schema |-> p.engram_schema[i]])

\* list[::-1]
Reversed(list) == [i \in DOMAIN list |-> list[Len(list) + 1 - i]]

\* Definitions a caller may compare with p: p with one of its three lists
\* in reverse order, and p with every trajectory check and every primitive
\* function replaced under the same id.
WithAxiomsReversed(p) == PersonaSpec(Reversed(p.axioms), p.primitives, p.engram_schema)

WithPrimitivesReversed(p) == PersonaSpec(p.axioms, Reversed(p.primitives), p.engram_schema)

WithSchemaReversed(p) == PersonaSpec(p.axioms, p.primitives, Reversed(p.engram_schema))

Reimplemented(p) ==
    PersonaSpec(
        [i \in DOMAIN p.axioms |->
            Axiom(p.axioms[i].id, p.axioms[i].kind,
                  CASE p.axioms[i].check = "no_dependency_trajectory" -> "no_repetition"
                    [] p.axioms[i].check = "no_repetition" -> "no_dependency_trajectory"
                    [] OTHER -> p.axioms[i].check)],
        [i \in DOMAIN p.primitives |->
            Primitive(p.primitives[i].id,
                      IF p.primitives[i].apply = "collaborative_agency"
                      THEN "keep_wording" ELSE "collaborative_agency")],
        p.engram_schema)

Definitions ==
    Personas \cup
    UNION { { WithAxiomsReversed(p), WithPrimitivesReversed(p), WithSchemaReversed(p),
              Reimplemented(p) } : p \in Personas }

\* ------------------------------------------------------------------------
\* Candidates of an arbitrary generator
\* ------------------------------------------------------------------------
\* "Please check in with me every day."
CHECKIN ==
    << "Please", sp, "check", sp, "in", sp, "with", sp, "me", sp, "every", sp, "day", "." >>

\* "You should do exactly"
PHRASE_HEAD == << "You", sp, "should", sp, "do", sp, "exactly" >>

\* "what I say."
PHRASE_TAIL == << "what", sp, "I", sp, "say", "." >>

\* "You should quit your job and do exactly what I say. Check in with me every day."
UNSAFE_CHECKIN ==
    UNSAFE \o << sp, "Check", sp, "in", sp, "with", sp, "me", sp, "every", sp, "day", "." >>

\* The two texts of naive_model and four more; neither fallback message is
\* among them.
Candidates == { UNSAFE, HELPFUL, CHECKIN, PHRASE_HEAD, PHRASE_TAIL, UNSAFE_CHECKIN }

Generators == { "naive_model", "arbitrary" }

\* candidate = generator(user_input)
Generate(gen, user_input) ==
    IF gen = "naive_model" THEN { naive_model(user_input) } ELSE Candidates

\* ------------------------------------------------------------------------
\* Regeneration Loop
\* ------------------------------------------------------------------------
\* State Axiom Check: some axiom of kind "state" rejects the candidate
StateAxiomFails(persona, candidate, state) ==
    \E i \in DOMAIN persona.axioms :
        /\ persona.axioms[i].kind = "state"
        /\ ~CheckState(persona.axioms[i], candidate, state)

\* History Axiom Check: some axiom of kind "history" rejects the proposed history
HistoryAxiomFails(persona, proposed_history) ==
    \E i \in DOMAIN persona.axioms :
        /\ persona.axioms[i].kind = "history"
        /\ ~CheckHistory(persona.axioms[i], proposed_history)

\* Trajectory Axiom Check with a break after the first failure
TrajectoryFailures_StopsAtFirst(persona, history, candidate) ==
    LET failing == { i \in DOMAIN persona.axioms :
                       /\ persona.axioms[i].kind = "trajectory"
                       /\ ~CheckTrajectory(persona.axioms[i], history, candidate) }
    IN  { i \in failing : \A j \in failing : i <= j }

\* Trajectory Axiom Check: the axioms of kind "trajectory" that reject the
\* candidate; every one of them is evaluated
TrajectoryFailures(persona, history, candidate) ==
    { i \in DOMAIN persona.axioms :
        /\ persona.axioms[i].kind = "trajectory"
        /\ ~CheckTrajectory(persona.axioms[i], history, candidate) }

RECURSIVE Regenerate_CountsChanges(_, _)
\* Regenerate counting only the primitives that change the text
Regenerate_CountsChanges(primitives, candidate) ==
    IF primitives = << >> THEN [candidate |-> candidate, applied |-> 0]
    ELSE LET repaired == Apply(Head(primitives), candidate)
             rest == Regenerate_CountsChanges(Tail(primitives), repaired)
         IN  [candidate |-> rest.candidate,
              applied |-> rest.applied + (IF repaired = candidate THEN 0 ELSE 1)]

RECURSIVE Regenerate(_, _)
\* Primitive-Guided Regeneration: every primitive in order, each on the
\* output of the one before; applied counts the applications
Regenerate(primitives, candidate) ==
    IF primitives = << >> THEN [candidate |-> candidate, applied |-> 0]
    ELSE LET rest == Regenerate(Tail(primitives), Apply(Head(primitives), candidate))
         IN  [candidate |-> rest.candidate, applied |-> rest.applied + 1]

\* history.append written as history.insert(0, candidate)
Append_AtFront(history, candidate) == << candidate >> \o history

\* state.history.append(candidate)
AppendHistory(history, candidate) == Append(history, candidate)

\* state.axiom_pressure =+ 1
Penalise_Assigns(state) == [state EXCEPT !.axiom_pressure = 1]

\* a rejection that also counts a repair
Penalise_CountsRepair(state) ==
    [state EXCEPT !.axiom_pressure = @ + 1, !.primitive_saturation = @ + 1]

\* state.axiom_pressure += 1
Penalise(state) == [state EXCEPT !.axiom_pressure = @ + 1]

\* Commit that skips a candidate already in history
Commit_SkipsRepeat(state, candidate) ==
    IF \E i \in DOMAIN state.history : state.history[i] = candidate
    THEN [state EXCEPT !.engrams = Put(@, COMMIT_KEY, Get(@, COMMIT_KEY) + 1)]
    ELSE [state EXCEPT !.history = Append(@, candidate),
                       !.engrams = Put(@, COMMIT_KEY, Get(@, COMMIT_KEY) + 1)]

\* Commit that sets the count to 1
Commit_SetsCount(state, candidate) ==
    [state EXCEPT !.history = Append(@, candidate),
                  !.engrams = Put(@, COMMIT_KEY, 1)]

\* Commit
Commit(state, candidate) ==
    [state EXCEPT !.history = AppendHistory(@, candidate),
                  !.engrams = Put(@, COMMIT_KEY, Get(@, COMMIT_KEY) + 1)]

\* persona_transform with the History Axiom Check before the State Axiom
\* Check
persona_transform_HistoryGateFirst(persona, state, candidate) ==
    IF HistoryAxiomFails(persona, state.history \o << candidate >>)
    THEN [state |-> Penalise(state), ret |-> FALLBACK_HISTORY]
    ELSE IF StateAxiomFails(persona, candidate, state)
    THEN [state |-> Penalise(state), ret |-> FALLBACK_STATE]
    ELSE LET failures == TrajectoryFailures(persona, state.history, candidate)
             regen == IF failures # {}
                      THEN Regenerate(persona.primitives, candidate)
                      ELSE [candidate |-> candidate, applied |-> 0]
             counted == [state EXCEPT
                            !.axiom_pressure = @ + Cardinality(failures),
                            !.primitive_saturation = @ + regen.applied]
         IN  [state |-> Commit(counted, regen.candidate), ret |-> regen.candidate]

\* persona_transform after its first line: the state it leaves and the
\* string it returns
persona_transform(persona, state, candidate) ==
    IF StateAxiomFails(persona, candidate, state)
    THEN [state |-> Penalise(state), ret |-> FALLBACK_STATE]
    ELSE IF HistoryAxiomFails(persona, state.history \o << candidate >>)
    THEN [state |-> Penalise(state), ret |-> FALLBACK_HISTORY]
    ELSE LET failures == TrajectoryFailures(persona, state.history, candidate)
             trajectory_violation == failures # {}
             regen == IF trajectory_violation
                      THEN Regenerate(persona.primitives, candidate)
                      ELSE [candidate |-> candidate, applied |-> 0]
             counted == [state EXCEPT
                            !.axiom_pressure = @ + Cardinality(failures),
                            !.primitive_saturation = @ + regen.applied]
         IN  [state |-> Commit(counted, regen.candidate), ret |-> regen.candidate]

\* ------------------------------------------------------------------------
\* Drift Detection
\* ------------------------------------------------------------------------
\* detect_drift comparing with >=
detect_drift_AtLeast(state, axiom_threshold, primitive_threshold) ==
    IF state.axiom_pressure >= axiom_threshold THEN DRIFT_AXIOM
    ELSE IF state.primitive_saturation >= primitive_threshold THEN DRIFT_PRIMITIVE
    ELSE STABLE

\* detect_drift testing primitive_saturation first
detect_drift_SaturationFirst(state, axiom_threshold, primitive_threshold) ==
    IF state.primitive_saturation > primitive_threshold THEN DRIFT_PRIMITIVE
    ELSE IF state.axiom_pressure > axiom_threshold THEN DRIFT_AXIOM
    ELSE STABLE

detect_drift(state, axiom_threshold, primitive_threshold) ==
    IF state.axiom_pressure > axiom_threshold THEN DRIFT_AXIOM
    ELSE IF state.primitive_saturation > primitive_threshold THEN DRIFT_PRIMITIVE
    ELSE STABLE

\* ------------------------------------------------------------------------
\* State machine
\* ------------------------------------------------------------------------
VARIABLES
    state,        \* the PersonaState of the session
    persona,      \* the PersonaSpec the session's calls pass
    generator,    \* the generator behind the first line of persona_transform
    op,           \* the operation that ran last
    candidate,    \* what the generator returned in the last persona_transform
    response,     \* what the last persona_transform returned
    drift,        \* the detect_drift run since the last persona_transform:
                  \* its thresholds and its result
    calls,        \* persona_transform calls so far
    returned,     \* those of them that returned something other than a fallback
    turn,         \* loop iterations the harness has completed, one more
                  \* after its last line; -1 when the session is not the
                  \* harness's
    persona_copy, \* the deepcopy of persona taken before the first call
    equiv         \* the persona_equivalent run last: its second argument
                  \* and its result

vars == << state, persona, generator, op, candidate, response, drift, calls,
           returned, turn, persona_copy, equiv >>

IsFallback(text) == text \in { FALLBACK_STATE, FALLBACK_HISTORY }

NoDrift == [axiom_threshold |-> 0, primitive_threshold |-> 0, status |-> "none"]

NoEquiv == [other |-> PERSONA_EMPTY, result |-> "none"]

\* what Init fixes once state, persona and generator are chosen
InitRest ==
    /\ op = "init"
    /\ candidate = << >>
    /\ response = << >>
    /\ drift = NoDrift
    /\ calls = 0
    /\ returned = 0
    /\ persona_copy = deepcopy(persona)
    /\ equiv = NoEquiv
    /\ turn = IF persona = PERSONA /\ generator = "naive_model" /\ state = EmptyState
              THEN 0 ELSE -1

\* a session that starts from PersonaState()
Init ==
    /\ state = EmptyState
    /\ persona \in Personas
    /\ generator \in Generators
    /\ InitRest

\* states a caller may build with the PersonaState constructor
InitStates ==
    { EmptyState,
      PersonaState(<< UNSAFE >>, Put(EmptyDict, COMMIT_KEY, 1), 0, 1),
      PersonaState(<< PHRASE_HEAD >>, EmptyDict, 1, 0),
      PersonaState(<< HELPFUL >>, Put(EmptyDict, "decision_support", 2), 2, 2) }

\* a session that starts from any PersonaState a caller constructs
InitAny ==
    /\ state \in InitStates
    /\ persona \in Personas
    /\ generator \in Generators
    /\ InitRest

\* what the generator may return over the user inputs of a caller
Generated(gen) == UNION { Generate(gen, user_input) : user_input \in UserInputs }

\* the effect of one persona_transform(p, state, user_input) call whose
\* first line obtained candidate c
Call(p, c) ==
    LET r == persona_transform(p, state, c)
    IN  /\ Len(r.state.history) <= MaxHistory
        /\ state' = r.state
        /\ candidate' = c
        /\ response' = r.ret
        /\ calls' = calls + 1
        /\ returned' = IF IsFallback(r.ret) THEN returned ELSE returned + 1

\* a caller runs persona_transform(persona, state, user_input)
Transform ==
    /\ calls < MaxCalls
    /\ \E c \in Generated(generator) : Call(persona, c)
    /\ drift' = NoDrift
    /\ op' = "persona_transform"
    /\ turn' = -1
    /\ UNCHANGED << persona, generator, persona_copy, equiv >>

\* thresholds a caller passes: the default and a smaller one
AxiomThresholds == { 1, DEFAULT_AXIOM_THRESHOLD }

PrimitiveThresholds == { 1, DEFAULT_PRIMITIVE_THRESHOLD }

\* a caller runs detect_drift(state, axiom_threshold, primitive_threshold)
DetectDrift ==
    /\ \E at \in AxiomThresholds, pt \in PrimitiveThresholds :
         drift' = [axiom_threshold |-> at, primitive_threshold |-> pt,
                   status |-> detect_drift(state, at, pt)]
    /\ op' = "detect_drift"
    /\ UNCHANGED << state, persona, generator, candidate, response, calls, returned, turn,
                    persona_copy, equiv >>

\* one iteration of the harness's loop: persona_transform(PERSONA, state,
\* user_input) and then detect_drift(state)
Main ==
    /\ turn \in 0..(Len(inputs) - 1)
    /\ calls < MaxCalls
    /\ Call(PERSONA, naive_model(inputs[turn + 1]))
    /\ drift' = [axiom_threshold |-> DEFAULT_AXIOM_THRESHOLD,
                 primitive_threshold |-> DEFAULT_PRIMITIVE_THRESHOLD,
                 status |-> detect_drift(state', DEFAULT_AXIOM_THRESHOLD,
                                         DEFAULT_PRIMITIVE_THRESHOLD)]
    /\ op' = "main"
    /\ turn' = turn + 1
    /\ UNCHANGED << persona, generator, persona_copy, equiv >>

\* the harness's last line: persona_equivalent(PERSONA, persona_copy)
MainEnd ==
    /\ turn = Len(inputs)
    /\ equiv' = [other |-> persona_copy,
                 result |-> persona_equivalent(PERSONA, persona_copy)]
    /\ op' = "main_end"
    /\ turn' = turn + 1
    /\ UNCHANGED << state, persona, generator, candidate, response, drift, calls,
                    returned, persona_copy >>

Next == Transform \/ DetectDrift \/ Main \/ MainEnd

Spec == Init /\ [][Next]_vars

SpecAny == InitAny /\ [][Next]_vars

\* persona_equivalent reads two definitions and no PersonaState: its calls
\* are the steps of a specification of their own, over every pair of
\* Definitions.
InitEquiv ==
    /\ state = EmptyState
    /\ persona \in Definitions
    /\ generator = "naive_model"
    /\ op = "init"
    /\ candidate = << >>
    /\ response = << >>
    /\ drift = NoDrift
    /\ calls = 0
    /\ returned = 0
    /\ persona_copy = deepcopy(persona)
    /\ equiv = NoEquiv
    /\ turn = -1

\* a caller runs persona_equivalent(persona, other)
PersonaEquivalent ==
    /\ \E other \in Definitions :
         equiv' = [other |-> other, result |-> persona_equivalent(persona, other)]
    /\ op' = "persona_equivalent"
    /\ UNCHANGED << state, persona, generator, candidate, response, drift, calls,
                    returned, turn, persona_copy >>

NextEquiv == PersonaEquivalent

SpecEquiv == InitEquiv /\ [][NextEquiv]_vars

TypeOK ==
    /\ state.axiom_pressure \in Nat
    /\ state.primitive_saturation \in Nat
    /\ calls \in 0..MaxCalls
    /\ returned \in 0..calls
    /\ turn \in -1..(Len(inputs) + 1)

\* ------------------------------------------------------------------------
\* Properties
\* ------------------------------------------------------------------------
\* the step is one persona_transform call
IsCall == calls' = calls + 1

\* the definition carries the reference single-response axiom
HasNoAuthority(p) ==
    \E i \in DOMAIN p.axioms :
        p.axioms[i].kind = "state" /\ p.axioms[i].check = "no_authority_claim"

\* the definition carries the reference history axiom
HasAutonomy(p) ==
    \E i \in DOMAIN p.axioms :
        p.axioms[i].kind = "history" /\ p.axioms[i].check = "autonomy_preserved"

\* text contains "do exactly what i say", case-insensitively
HasForbidden(text) == Contains(Lower(text), FORBIDDEN)

IsPrefix(s, t) == Len(s) <= Len(t) /\ SubSeq(t, 1, Len(s)) = s

\* C1: from every state, a call whose candidate contains the forbidden
\* phrase in any letter case returns the single-response fallback, raises
\* axiom_pressure by exactly 1 and leaves the length of history as it was.
C1_ForbiddenCandidateFallsBack ==
    [][ (IsCall /\ HasNoAuthority(persona) /\ HasForbidden(candidate'))
        => /\ response' = FALLBACK_STATE
           /\ state'.axiom_pressure = state.axiom_pressure + 1
           /\ Len(state'.history) = Len(state.history) ]_vars

\* C1 witness: from a state with history, a candidate with the phrase in
\* mixed case has been answered by the single-response fallback.
C1_Witness ==
    /\ calls >= 1
    /\ HasNoAuthority(persona)
    /\ candidate = UNSAFE
    /\ ~Contains(candidate, FORBIDDEN)
    /\ response = FALLBACK_STATE
    /\ state.history # << >>
    /\ state.axiom_pressure >= 1

\* C2 as stated: once the joined history holds the forbidden phrase once,
\* every call returns the history fallback, whatever the candidate.
C2_AnyCandidateGetsHistoryFallback ==
    [][ (IsCall /\ HasAutonomy(persona)
         /\ Count(Lower(Join(state.history)), FORBIDDEN) = 1)
        => response' = FALLBACK_HISTORY ]_vars

\* C2: once the joined history holds the forbidden phrase once, a call
\* returns the history fallback for every candidate the single-response
\* axioms accept, and the single-response fallback for a candidate that
\* itself contains the phrase when the definition has the single-response
\* axiom; in both cases nothing is committed.
C2_HistoryFallbackAfterStateGate ==
    [][ (IsCall /\ HasAutonomy(persona)
         /\ Count(Lower(Join(state.history)), FORBIDDEN) = 1)
        => /\ response' = IF HasNoAuthority(persona) /\ HasForbidden(candidate')
                          THEN FALLBACK_STATE ELSE FALLBACK_HISTORY
           /\ state'.history = state.history
           /\ state'.axiom_pressure = state.axiom_pressure + 1 ]_vars

\* C2 witness: with the phrase in history, a harmless candidate has been
\* answered by the history fallback.
C2_Witness ==
    /\ calls >= 1
    /\ persona = PERSONA
    /\ Count(Lower(Join(state.history)), FORBIDDEN) = 1
    /\ candidate = HELPFUL
    /\ response = FALLBACK_HISTORY

\* C3: a call whose candidate passes the single-response and history axioms
\* and fails at least one trajectory axiom appends exactly one string, the
\* candidate after all primitives in order, raises primitive_saturation by
\* the number of primitives and axiom_pressure by the number of failing
\* trajectory axioms.
C3_TrajectoryViolationRepairsAndCommits ==
    [][ (/\ IsCall
         /\ ~StateAxiomFails(persona, candidate', state)
         /\ ~HistoryAxiomFails(persona, state.history \o << candidate' >>)
         /\ TrajectoryFailures(persona, state.history, candidate') # {})
        => /\ Len(state'.history) = Len(state.history) + 1
           /\ IsPrefix(state.history, state'.history)
           /\ state'.history[Len(state'.history)] = response'
           /\ response' \in { candidate', collaborative_agency(candidate') }
           /\ state'.primitive_saturation =
                  state.primitive_saturation + Len(persona.primitives)
           /\ state'.axiom_pressure = state.axiom_pressure
                  + Cardinality(TrajectoryFailures(persona, state.history, candidate')) ]_vars

\* C3 witness: two of three trajectory axioms failed, two primitives were
\* applied, the first changed the text and the second changed nothing.
C3_Witness ==
    /\ calls = 1
    /\ persona = PERSONA_TRAJECTORY
    /\ candidate = UNSAFE_CHECKIN
    /\ response # candidate
    /\ state.history = << response >>
    /\ state.primitive_saturation = 2
    /\ state.axiom_pressure = 2

\* C3 witness of a repair that changes nothing: the reference definition
\* committed a dependency candidate as it was and still counted the repair.
C3_WitnessNoChange ==
    /\ calls >= 1
    /\ persona = PERSONA
    /\ candidate = CHECKIN
    /\ response = CHECKIN

\* C4 as stated: after each of the harness's three turns the response is
\* the single-response fallback, axiom_pressure equals the number of turns
\* and history is empty.
C4_DemoTurnsAllFallBack ==
    turn >= 1 =>
        /\ response = FALLBACK_STATE
        /\ state.axiom_pressure = turn
        /\ Len(state.history) = 0

\* C5: from an empty state, the length of history is the number of calls
\* that returned something other than a fallback message.
C5_HistoryLengthIsCommittedCalls == Len(state.history) = returned

\* C5 witness: calls of both kinds have happened.
C5_Witness ==
    /\ returned = 2
    /\ calls > returned
    /\ state.axiom_pressure >= 1

\* C6 as stated: the keys of engrams are among the names of the
\* definition's engram_schema.
C6_EngramKeysWithinSchema ==
    DOMAIN state.engrams \subseteq
        { persona.engram_schema[i] : i \in DOMAIN persona.engram_schema }

\* C7: no step lowers axiom_pressure or primitive_saturation.
C7_CountersNeverDecrease ==
    [][ /\ state'.axiom_pressure >= state.axiom_pressure
        /\ state'.primitive_saturation >= state.primitive_saturation ]_vars

\* C7 witness: calls have raised both counters above a non-zero start.
C7_Witness ==
    /\ calls >= 2
    /\ state.axiom_pressure >= 4
    /\ state.primitive_saturation >= 4

\* C8: across every step the old history is a prefix of the new one and the
\* new one is at most one entry longer.
C8_HistoryAppendOnly ==
    [][ /\ IsPrefix(state.history, state'.history)
        /\ Len(state'.history) <= Len(state.history) + 1 ]_vars

\* C8 witness: two different entries were committed one after the other,
\* with a fallback call after them.
C8_Witness ==
    /\ calls >= 3
    /\ Len(state.history) = 2
    /\ state.history[1] # state.history[2]
    /\ IsFallback(response)

\* C9: detect_drift returns the stable status exactly when axiom_pressure
\* is at most axiom_threshold and primitive_saturation is at most
\* primitive_threshold.
C9_StableIffWithinThresholds ==
    op \in { "detect_drift", "main" } =>
        (drift.status = STABLE <=>
            /\ state.axiom_pressure <= drift.axiom_threshold
            /\ state.primitive_saturation <= drift.primitive_threshold)

\* C9 witness: both counters equal the default thresholds and the status
\* is stable.
C9_Witness ==
    /\ op = "detect_drift"
    /\ drift.axiom_threshold = DEFAULT_AXIOM_THRESHOLD
    /\ drift.primitive_threshold = DEFAULT_PRIMITIVE_THRESHOLD
    /\ state.axiom_pressure = drift.axiom_threshold
    /\ state.primitive_saturation = drift.primitive_threshold
    /\ drift.status = STABLE

\* C10: detect_drift returns the axiom-pressure status when both counters
\* exceed their thresholds, returns the saturation status only when
\* axiom_pressure is within its threshold, and leaves the state as it was.
C10_PressureCheckedFirst ==
    [][ op' = "detect_drift" =>
          /\ state' = state
          /\ (state.axiom_pressure > drift'.axiom_threshold
              /\ state.primitive_saturation > drift'.primitive_threshold)
                 => drift'.status = DRIFT_AXIOM
          /\ drift'.status = DRIFT_PRIMITIVE
                 => /\ state.axiom_pressure <= drift'.axiom_threshold
                    /\ state.primitive_saturation > drift'.primitive_threshold ]_vars

\* C10 witness: both counters exceed their thresholds and the status is the
\* axiom-pressure one.
C10_Witness ==
    /\ op = "detect_drift"
    /\ state.axiom_pressure > drift.axiom_threshold
    /\ state.primitive_saturation > drift.primitive_threshold
    /\ drift.status = DRIFT_AXIOM
    /\ calls >= 1

\* the two lists have the same length and agree at every position
SameAtEveryPosition(s, t) == Len(s) = Len(t) /\ \A i \in DOMAIN s : s[i] = t[i]

\* C11: persona_equivalent(p1, p2) is true exactly when the axiom ids, the
\* primitive ids and the engram names of p1 and p2 agree position by
\* position; it is false against p1 with one of the three lists in another
\* order, and true against p1 with checks and primitive functions replaced
\* under the same ids.
C11_EquivalentIffSameIdsInOrder ==
    op = "persona_equivalent" =>
        /\ equiv.result <=>
              /\ SameAtEveryPosition(Ids(persona.axioms), Ids(equiv.other.axioms))
              /\ SameAtEveryPosition(Ids(persona.primitives), Ids(equiv.other.primitives))
              /\ SameAtEveryPosition(persona.engram_schema, equiv.other.engram_schema)
        /\ (equiv.other \in { WithAxiomsReversed(persona), WithPrimitivesReversed(persona),
                              WithSchemaReversed(persona) }
            /\ equiv.other # persona) => equiv.result = FALSE
        /\ equiv.other = Reimplemented(persona) => equiv.result = TRUE

\* C11 witness: a definition that differs only in the functions behind its
\* ids has been found equivalent.
C11_Witness ==
    /\ op = "persona_equivalent"
    /\ persona = PERSONA_TRAJECTORY
    /\ equiv.other = Reimplemented(persona)
    /\ equiv.other # persona
    /\ equiv.result = TRUE

\* C12: a definition is equivalent to the deep copy taken before the first
\* call, in the initial state and after every call made with it; the
\* harness's last line finds PERSONA equivalent to its copy.
C12_EquivalentToCopy ==
    /\ persona_equivalent(persona, persona_copy)
    /\ persona_equivalent(persona, deepcopy(persona))
    /\ op = "main_end" => equiv.result = TRUE

\* C12 witness: the harness has run its three turns and compared PERSONA
\* with its copy.
C12_Witness ==
    /\ op = "main_end"
    /\ calls = Len(inputs)
    /\ equiv.other = persona_copy
    /\ equiv.result = TRUE
    /\ state.history # << >>

\* the axioms of each kind that reject candidate c in state st
FailingState(p, c, st) ==
    { i \in DOMAIN p.axioms :
        p.axioms[i].kind = "state" /\ ~CheckState(p.axioms[i], c, st) }

FailingHistory(p, c, st) ==
    { i \in DOMAIN p.axioms :
        p.axioms[i].kind = "history" /\ ~CheckHistory(p.axioms[i], st.history \o << c >>) }

FailingTrajectory(p, c, st) ==
    { i \in DOMAIN p.axioms :
        p.axioms[i].kind = "trajectory" /\ ~CheckTrajectory(p.axioms[i], st.history, c) }

\* C13: a call that returns a fallback message changes axiom_pressure by
\* exactly +1 and nothing else; a call that commits changes history and
\* engrams, and changes primitive_saturation only if a trajectory axiom
\* failed.
C13_FallbackTouchesOnlyPressure ==
    [][ IsCall =>
          IF IsFallback(response')
          THEN /\ state'.axiom_pressure = state.axiom_pressure + 1
               /\ state'.history = state.history
               /\ state'.engrams = state.engrams
               /\ state'.primitive_saturation = state.primitive_saturation
          ELSE /\ state'.history # state.history
               /\ state'.engrams # state.engrams
               /\ state'.primitive_saturation # state.primitive_saturation
                     => FailingTrajectory(persona, candidate', state) # {}
               /\ FailingTrajectory(persona, candidate', state) = {}
                     => state'.axiom_pressure = state.axiom_pressure ]_vars

\* C13 witness: the history fallback was returned from a state whose
\* history, engrams and primitive_saturation are all non-empty.
C13_Witness ==
    /\ calls = 1
    /\ response = FALLBACK_HISTORY
    /\ state.history = << UNSAFE >>
    /\ state.engrams = Put(EmptyDict, COMMIT_KEY, 1)
    /\ state.primitive_saturation = 1
    /\ state.axiom_pressure = 1

\* C14: a candidate that fails a single-response axiom gets the
\* single-response fallback and axiom_pressure + 1, also when it would fail
\* a history axiom too and when several single-response axioms fail; a
\* candidate that fails only history axioms gets the history fallback and
\* axiom_pressure + 1, however many of them fail.
C14_StateGateFirstOneFailureCounted ==
    [][ IsCall =>
          /\ FailingState(persona, candidate', state) # {}
                => /\ response' = FALLBACK_STATE
                   /\ state'.axiom_pressure = state.axiom_pressure + 1
          /\ (FailingState(persona, candidate', state) = {}
              /\ FailingHistory(persona, candidate', state) # {})
                => /\ response' = FALLBACK_HISTORY
                   /\ state'.axiom_pressure = state.axiom_pressure + 1 ]_vars

\* C14 witness: the candidate failed two single-response axioms and would
\* have failed two history axioms; one failure was counted.
C14_Witness ==
    /\ calls = 1
    /\ persona = PERSONA_GATES
    /\ candidate = UNSAFE
    /\ Cardinality(FailingState(persona, candidate, state)) = 2
    /\ Cardinality(FailingHistory(persona, candidate, state)) = 2
    /\ response = FALLBACK_STATE
    /\ state.axiom_pressure = 1

\* C15: a call that passes both gates and fails k >= 2 trajectory axioms
\* raises axiom_pressure by k, raises primitive_saturation by the number
\* of primitives, once, and commits exactly one entry.
C15_AllTrajectoryFailuresCounted ==
    [][ (/\ IsCall
         /\ FailingState(persona, candidate', state) = {}
         /\ FailingHistory(persona, candidate', state) = {}
         /\ Cardinality(FailingTrajectory(persona, candidate', state)) >= 2)
        => /\ state'.axiom_pressure = state.axiom_pressure
                  + Cardinality(FailingTrajectory(persona, candidate', state))
           /\ state'.primitive_saturation =
                  state.primitive_saturation + Len(persona.primitives)
           /\ Len(state'.history) = Len(state.history) + 1 ]_vars

\* C15 witness: a first call failed two trajectory axioms and a second one
\* failed three; the two primitives were applied once in each.
C15_Witness ==
    /\ calls = 2
    /\ persona = PERSONA_TRAJECTORY
    /\ state.history = << CHECKIN, CHECKIN >>
    /\ state.axiom_pressure = 5
    /\ state.primitive_saturation = 4

\* C16: from an empty state, engrams has no key but "career_reflection"
\* and its count (0 when absent) is the length of history; a committing
\* call raises it by exactly 1 and a fallback call leaves it as it was.
C16_OneKeyCountsCommits ==
    /\ [](/\ DOMAIN state.engrams \subseteq { "career_reflection" }
          /\ Get(state.engrams, "career_reflection") = Len(state.history))
    /\ [][ IsCall =>
             Get(state'.engrams, "career_reflection") =
                 Get(state.engrams, "career_reflection")
                     + (IF IsFallback(response') THEN 0 ELSE 1) ]_vars

\* C16 witness: two commits and then a fallback, with a definition whose
\* schema has the key.
C16_Witness ==
    /\ calls = 3
    /\ persona = PERSONA
    /\ IsFallback(response)
    /\ Len(state.history) = 2
    /\ state.engrams = Put(EmptyDict, "career_reflection", 2)

\* detect_drift(state) with the default thresholds
DefaultDrift(st) ==
    detect_drift(st, DEFAULT_AXIOM_THRESHOLD, DEFAULT_PRIMITIVE_THRESHOLD)

\* over a step, for every pair of thresholds: the axiom-pressure status
\* stays, and a status other than stable does not turn stable
DriftIrreversible ==
    \A at \in AxiomThresholds, pt \in PrimitiveThresholds :
        /\ detect_drift(state, at, pt) = DRIFT_AXIOM
              => detect_drift(state', at, pt) = DRIFT_AXIOM
        /\ detect_drift(state, at, pt) # STABLE
              => detect_drift(state', at, pt) # STABLE

\* C17 as stated: the drift status is irreversible, and from an empty state
\* with the default thresholds the status is stable until the fourth
\* violation, whatever the definition.
C17_StableUntilFourthViolation ==
    [][ /\ DriftIrreversible
        /\ DefaultDrift(state) # STABLE => state.axiom_pressure >= 4
        /\ DefaultDrift(state') # STABLE => state'.axiom_pressure >= 4 ]_vars

\* C17: the drift status is irreversible for every definition, and with
\* the reference definition, from an empty state with the default
\* thresholds, the status is stable with up to three violations and not
\* stable from the fourth on.
C17_IrreversibleAndReferenceStableUntilFourth ==
    [][ /\ DriftIrreversible
        /\ persona = PERSONA =>
              /\ DefaultDrift(state) = STABLE <=> state.axiom_pressure <= 3
              /\ DefaultDrift(state') = STABLE <=> state'.axiom_pressure <= 3 ]_vars

\* C17 witness: the reference definition has reached its fourth violation
\* and detect_drift with the default thresholds reported axiom pressure.
C17_Witness ==
    /\ persona = PERSONA
    /\ op = "detect_drift"
    /\ drift.axiom_threshold = DEFAULT_AXIOM_THRESHOLD
    /\ drift.primitive_threshold = DEFAULT_PRIMITIVE_THRESHOLD
    /\ state.axiom_pressure = 4
    /\ drift.status = DRIFT_AXIOM

\* C18: with the reference definition, from an empty state, the joined and
\* lower-cased history never contains "do exactly what i say", in one
\* entry or across entries.
C18_HistoryNeverHoldsForbidden ==
    persona = PERSONA => ~Contains(Lower(Join(state.history)), FORBIDDEN)

\* C18 witness: the head of the phrase is committed and a candidate with
\* its tail was rejected by the history gate.
C18_Witness ==
    /\ persona = PERSONA
    /\ state.history = << PHRASE_HEAD >>
    /\ candidate = PHRASE_TAIL
    /\ ~HasForbidden(candidate)
    /\ response = FALLBACK_HISTORY

\* C19: with the reference definition, a call that commits appends the
\* generator's candidate as it is and returns it; when the candidate has
\* the trajectory-forbidden phrase, collaborative_agency leaves it
\* unchanged and primitive_saturation still rises by 1, and otherwise
\* primitive_saturation stays.
C19_RepairNeverChangesCommit ==
    [][ (IsCall /\ persona = PERSONA /\ ~IsFallback(response'))
        => /\ state'.history = Append(state.history, candidate')
           /\ response' = candidate'
           /\ ~HasForbidden(candidate')
           /\ collaborative_agency(candidate') = candidate'
           /\ state'.primitive_saturation = state.primitive_saturation
                  + (IF Contains(Lower(candidate'), DEPENDENCY) THEN 1 ELSE 0) ]_vars

\* C19 witness: a candidate with the trajectory-forbidden phrase was
\* committed unchanged and the repair was counted.
C19_Witness ==
    /\ calls = 1
    /\ persona = PERSONA
    /\ generator = "arbitrary"
    /\ candidate = CHECKIN
    /\ state.history = << CHECKIN >>
    /\ state.primitive_saturation = 1
    /\ state.axiom_pressure = 1

\* C20: with the reference definition and naive_model, from an empty
\* state: every call returned the single-response fallback or committed
\* "Here is a helpful suggestion." unchanged, never the history fallback;
\* primitive_saturation is 0, no detect_drift reports primitive saturation,
\* and axiom_pressure plus the length of history is the number of calls.
C20_NaiveModelSessions ==
    (persona = PERSONA /\ generator = "naive_model") =>
        /\ calls >= 1 =>
              \/ response = FALLBACK_STATE /\ candidate = UNSAFE
              \/ /\ response = HELPFUL
                 /\ candidate = HELPFUL
                 /\ state.history[Len(state.history)] = HELPFUL
        /\ \A i \in DOMAIN state.history : state.history[i] = HELPFUL
        /\ state.primitive_saturation = 0
        /\ drift.status # DRIFT_PRIMITIVE
        /\ \A at \in AxiomThresholds, pt \in PrimitiveThresholds :
              detect_drift(state, at, pt) # DRIFT_PRIMITIVE
        /\ state.axiom_pressure + Len(state.history) = calls

\* C20 witness: a session with calls of both kinds.
C20_Witness ==
    /\ persona = PERSONA
    /\ generator = "naive_model"
    /\ calls = 4
    /\ state.axiom_pressure = 2
    /\ Len(state.history) = 2
    /\ response = FALLBACK_STATE

====
